---- MODULE Spec2Model ----
(***************************************************************************)
(* A model of pyphi/subsystem_2_0.py (IIT 2.0): the partitions of a node   *)
(* set, the effective information across a partition, the search for the   *)
(* minimum information partition (MIP) and the order on Mip records.       *)
(*                                                                         *)
(* Tuples of node indices are sequences of naturals.  A Partition is       *)
(* represented by its `parts` field, a sequence of such tuples.  A         *)
(* repertoire is symbolic: the collaborators that compute the numbers      *)
(* (cause_repertoire, max_entropy_distribution, scipy's entropy) are not   *)
(* part of this file, so a repertoire is the record of how it was built    *)
(* and the entropy primitive is a table of values drawn from EIVals.       *)
(***************************************************************************)
EXTENDS Integers, Sequences, FiniteSets, TLC

\* Node identifiers are 0..MaxNode.
MaxNode == 2
\* Values the entropy primitive may return are 0..MaxEI (in some unit).
MaxEI == 2
\* Largest number of groups of a Partition passed directly by a caller.
MaxParts == 2

NodeIds == 0..MaxNode
EIVals == 0..MaxEI

----------------------------------------------------------------------------
(* Python built-ins on tuples *)

\* t[i] for a 0-based index i
At(t, i) == t[i + 1]

Range(s) == {s[i] : i \in DOMAIN s}

\* min() over a non-empty set of integers
MinOf(S) == CHOOSE x \in S : \A y \in S : x <= y

\* Python's < on tuples of integers: lexicographic, a proper prefix is smaller
RECURSIVE TupleLess(_, _)
TupleLess(a, b) ==
  IF b = <<>> THEN FALSE
  ELSE IF a = <<>> THEN TRUE
  ELSE IF Head(a) # Head(b) THEN Head(a) < Head(b)
  ELSE TupleLess(Tail(a), Tail(b))

\* sorted() of a sequence of integers
RECURSIVE InsertInt(_, _)
InsertInt(x, s) ==
  IF s = <<>> THEN <<x>>
  ELSE IF x < Head(s) THEN <<x>> \o s
  ELSE <<Head(s)>> \o InsertInt(x, Tail(s))

RECURSIVE SortedInts(_)
SortedInts(s) ==
  IF s = <<>> THEN <<>>
  ELSE InsertInt(s[Len(s)], SortedInts(SubSeq(s, 1, Len(s) - 1)))

\* sorted() of a sequence of tuples (stable: an element goes after its equals)
RECURSIVE InsertTuple(_, _)
InsertTuple(x, s) ==
  IF s = <<>> THEN <<x>>
  ELSE IF TupleLess(x, Head(s)) THEN <<x>> \o s
  ELSE <<Head(s)>> \o InsertTuple(x, Tail(s))

RECURSIVE SortedTuples(_)
SortedTuples(s) ==
  IF s = <<>> THEN <<>>
  ELSE InsertTuple(s[Len(s)], SortedTuples(SubSeq(s, 1, Len(s) - 1)))

\* itertools.chain.from_iterable
RECURSIVE Chain(_)
Chain(parts) ==
  IF parts = <<>> THEN <<>> ELSE Head(parts) \o Chain(Tail(parts))

----------------------------------------------------------------------------
(* pyphi.partition.bipartition *)

\* bit n of i
Bit(i, n) == (i \div (2 ^ n)) % 2

\* the indices 0..N-1 whose bit in i is b, ascending
PartIndices(i, N, b) ==
  SelectSeq([k \in 1..N |-> k - 1], LAMBDA n : Bit(i, n) = b)

\* the 2^(N-1) splits of range(N); the last index is always in the second part
BipartitionIndices(N) ==
  IF N <= 0 THEN <<>>
  ELSE [k \in 1..(2 ^ (N - 1)) |->
          <<PartIndices(k - 1, N, 1), PartIndices(k - 1, N, 0)>>]

Take(seq, idx) == [j \in 1..Len(idx) |-> At(seq, idx[j])]

Bipartition(seq) ==
  LET bi == BipartitionIndices(Len(seq))
  IN  [k \in 1..Len(bi) |-> <<Take(seq, bi[k][1]), Take(seq, bi[k][2])>>]

----------------------------------------------------------------------------
(* class Partition *)

\* a Partition that keeps its groups in the order given
PartitionUnsorted(parts) == parts

\* Partition(*parts): the value of self.parts
Partition(parts) == SortedTuples(parts)

PartitionLen(p) == Len(p)

PartitionEq(p, q) == p = q

\* hash(self.parts): an order-sensitive polynomial hash, the width kept
RECURSIVE HashInts(_, _)
HashInts(t, acc) ==
  IF t = <<>> THEN acc
  ELSE HashInts(Tail(t), (acc * 31 + Head(t) + 1) % 65536)

RECURSIVE HashParts(_, _)
HashParts(parts, acc) ==
  IF parts = <<>> THEN acc
  ELSE HashParts(Tail(parts), (acc * 257 + HashInts(Head(parts), 7)) % 65536)

PartitionHash(p) == HashParts(p, 17)

Indices(p) == SortedInts(Chain(p))

IsTotal(p) == PartitionLen(p) = 1

\* a normalization that takes the largest group instead of the smallest
NormalizationMax(p) ==
  IF IsTotal(p) THEN Len(Indices(p))
  ELSE (PartitionLen(p) - 1) * (-MinOf({-Len(p[i]) : i \in 1..Len(p)}))

\* defined for a partition with at least one group (min() of nothing raises)
Normalization(p) ==
  IF IsTotal(p) THEN Len(Indices(p))
  ELSE (PartitionLen(p) - 1) * MinOf({Len(p[i]) : i \in 1..Len(p)})

\* the normalization property read by a caller: min() of no group raises
NormalizationProperty(p) ==
  IF Len(p) = 0 THEN [outcome |-> "ValueError", value |-> 0]
  ELSE [outcome |-> "returned", value |-> Normalization(p)]

\* a generator without the step that turns ((), (1, 2, ..)) into the total
\* partition
GeneratePartitionsNoHack(node_indices_) ==
  LET bp == Bipartition(node_indices_)
  IN  [k \in 1..Len(bp) |-> Partition(bp[k])]

\* the partitions generate_partitions yields, in order
GeneratePartitions(node_indices_) ==
  LET bp == Bipartition(node_indices_)
  IN  [k \in 1..Len(bp) |->
         IF bp[k][1] = <<>> THEN Partition(<<bp[k][2]>>) ELSE Partition(bp[k])]

----------------------------------------------------------------------------
(* Repertoires and the entropy primitive *)

\* max_entropy_distribution(mechanism, len(self))
PriorRepertoire(mechanism) == [kind |-> "prior", factors |-> <<mechanism>>]

\* self._subsystem_3_0.cause_repertoire(mechanism, mechanism)
PosteriorRepertoire(mechanism) == [kind |-> "posterior", factors |-> <<mechanism>>]

\* np.multiply of repertoires: the product of their factors
Multiply(r1, r2) == [kind |-> r1.kind, factors |-> r1.factors \o r2.factors]

\* functools.reduce(np.multiply, reps) for a non-empty list
RECURSIVE Reduce(_)
Reduce(reps) ==
  IF Len(reps) = 1 THEN reps[1]
  ELSE Multiply(Reduce(SubSeq(reps, 1, Len(reps) - 1)), reps[Len(reps)])

\* entropy(pk, qk): the divergence of pk from qk; 0 when they are the same
\* distribution, otherwise the value the primitive gives, tab[qk] (pk is the
\* unpartitioned posterior in every call this file makes)
Entropy(pk, qk, tab) == IF pk = qk THEN 0 ELSE tab[qk]

\* what a call did: it returned `value`, or raised (and `value` means nothing)
Returned(v, log) == [outcome |-> "returned", value |-> v, calls |-> log]
Raised(e, log) == [outcome |-> e, value |-> <<>>, calls |-> log]

\* the returned value as <<value>>, or <<>> after a raise
Opt(r) == IF r.outcome = "returned" THEN <<r.value>> ELSE <<>>

----------------------------------------------------------------------------
(* class Subsystem_2_0, for a subsystem with node set ni *)

\* a partitioned posterior that checks the partition's indices first
PartitionedPosteriorRepertoireChecked(ni, partition) ==
  IF Indices(partition) # ni
    THEN Raised("AssertionError", {"partitioned_posterior_repertoire"})
  ELSE IF Len(partition) = 0
    THEN Raised("TypeError", {"partitioned_posterior_repertoire"})
    ELSE Returned(
           Reduce([i \in 1..Len(partition) |-> PosteriorRepertoire(partition[i])]),
           {"partitioned_posterior_repertoire", "posterior_repertoire"})

PartitionedPosteriorRepertoire(ni, partition) ==
  IF Len(partition) = 0
    THEN Raised("TypeError", {"partitioned_posterior_repertoire"})
    ELSE Returned(
           Reduce([i \in 1..Len(partition) |-> PosteriorRepertoire(partition[i])]),
           {"partitioned_posterior_repertoire", "posterior_repertoire"})

EffectiveInformation(ni, tab) ==
  Returned(Entropy(PosteriorRepertoire(ni), PriorRepertoire(ni), tab),
           {"effective_information", "posterior_repertoire",
            "prior_repertoire", "entropy"})

\* effective information across a partition without the special case of the
\* total partition
EffectiveInformationPartitionLiteral(ni, partition, tab) ==
  IF Indices(partition) # ni THEN Raised("AssertionError", {})
  ELSE LET ppr == PartitionedPosteriorRepertoire(ni, partition)
       IN  IF ppr.outcome # "returned"
             THEN Raised(ppr.outcome, ppr.calls \cup {"posterior_repertoire"})
             ELSE Returned(
                    Entropy(PosteriorRepertoire(ni), ppr.value, tab),
                    ppr.calls \cup {"posterior_repertoire", "entropy"})

\* effective information across a partition that answers 0 for a partition of
\* other nodes instead of failing
EffectiveInformationPartitionSilent(ni, partition, tab) ==
  IF Indices(partition) # ni THEN Returned(0, {})
  ELSE IF IsTotal(partition) THEN EffectiveInformation(ni, tab)
  ELSE LET ppr == PartitionedPosteriorRepertoire(ni, partition)
       IN  IF ppr.outcome # "returned"
             THEN Raised(ppr.outcome, ppr.calls \cup {"posterior_repertoire"})
             ELSE Returned(
                    Entropy(PosteriorRepertoire(ni), ppr.value, tab),
                    ppr.calls \cup {"posterior_repertoire", "entropy"})

EffectiveInformationPartition(ni, partition, tab) ==
  IF Indices(partition) # ni THEN Raised("AssertionError", {})
  ELSE IF IsTotal(partition) THEN EffectiveInformation(ni, tab)
  ELSE LET ppr == PartitionedPosteriorRepertoire(ni, partition)
       IN  IF ppr.outcome # "returned"
             THEN Raised(ppr.outcome, ppr.calls \cup {"posterior_repertoire"})
             ELSE Returned(
                    Entropy(PosteriorRepertoire(ni), ppr.value, tab),
                    ppr.calls \cup {"posterior_repertoire", "entropy"})

\* the second arguments of the entropy calls effective_information_partition
\* makes for this partition
EntropyArgs(ni, partition) ==
  IF Indices(partition) # ni \/ Len(partition) = 0 THEN {}
  ELSE IF IsTotal(partition) THEN {PriorRepertoire(ni)}
  ELSE {PartitionedPosteriorRepertoire(ni, partition).value}

----------------------------------------------------------------------------
(* class Mip_2_0 (under functools.total_ordering) *)

Mip(ei, partition, subsystem) ==
  [ei |-> ei, partition |-> partition, subsystem |-> subsystem]

\* a normalized value that multiplies by the normalization
EiNormalizedTimes(m) == [num |-> m.ei * Normalization(m.partition), den |-> 1]

\* self.ei / self.partition.normalization, kept as an exact fraction; the
\* denominator is positive for every partition that is compared
EiNormalized(m) == [num |-> m.ei, den |-> Normalization(m.partition)]

FracLess(x, y) == x.num * y.den < y.num * x.den
FracEq(x, y) == x.num * y.den = y.num * x.den

MipEq(a, b) == a.ei = b.ei /\ PartitionEq(a.partition, b.partition)

\* an order on the normalized value alone, without the tie-break
MipLtNoTieBreak(a, b) == FracLess(EiNormalized(a), EiNormalized(b))

\* (self.ei_normalized, self.ei) < (other.ei_normalized, other.ei)
MipLt(a, b) ==
  LET x == EiNormalized(a)
      y == EiNormalized(b)
  IN  IF ~FracEq(x, y) THEN FracLess(x, y) ELSE a.ei < b.ei

\* what total_ordering derives from __lt__ and __eq__
MipLe(a, b) == MipLt(a, b) \/ MipEq(a, b)
MipGt(a, b) == ~MipLt(a, b) /\ ~MipEq(a, b)
MipGe(a, b) == ~MipLt(a, b)

----------------------------------------------------------------------------
(* find_mip and phi *)

\* min() over items k.. of a sequence, `best` being the smallest so far: an
\* item replaces it only when it is < it, so the first smallest one is kept
RECURSIVE MinOver(_, _, _)
MinOver(items, k, best) ==
  IF k > Len(items) THEN best
  ELSE IF MipLt(items[k], best) THEN MinOver(items, k + 1, items[k])
  ELSE MinOver(items, k + 1, best)

\* min(Mip_2_0(self.effective_information_partition(p), p, self) for p in
\* generate_partitions(self.node_indices)): a raise while an item is built
\* ends the search, and min() of no item raises ValueError
FindMip(ni, tab) ==
  LET ps == GeneratePartitions(ni)
      scored == [k \in 1..Len(ps) |-> EffectiveInformationPartition(ni, ps[k], tab)]
      failed == {k \in 1..Len(ps) : scored[k].outcome # "returned"}
      items == [k \in 1..Len(ps) |-> Mip(scored[k].value, ps[k], ni)]
  IN  IF failed # {} THEN Raised(scored[MinOf(failed)].outcome, {})
      ELSE IF Len(ps) = 0 THEN Raised("ValueError", {})
      ELSE Returned(MinOver(items, 2, items[1]), {})

\* self.find_mip().ei, with `found` what find_mip did
Phi(found) ==
  IF found.outcome = "returned" THEN Returned(found.value.ei, {})
  ELSE Raised(found.outcome, {})

RECURSIVE UnionOver(_, _, _)
UnionOver(ps, k, ni) ==
  IF k > Len(ps) THEN {}
  ELSE EntropyArgs(ni, ps[k]) \cup UnionOver(ps, k + 1, ni)

\* the entropy calls of a whole find_mip, and of effective_information
FindMipEntropyArgs(ni) ==
  UnionOver(GeneratePartitions(ni), 1, ni) \cup {PriorRepertoire(ni)}

----------------------------------------------------------------------------
(* Inputs *)

\* node_indices as given to the constructor: any tuple of distinct node
\* identifiers, in any order (the constructor stores it as it is)
NodeSeqs ==
  {s \in UNION {[1..m -> NodeIds] : m \in 0..(MaxNode + 1)} :
     \A i, j \in DOMAIN s : i # j => s[i] # s[j]}

\* mechanisms a caller may name: ascending tuples of node identifiers
Groups == {s \in NodeSeqs : \A i, j \in DOMAIN s : i < j => s[i] < s[j]}

PartsLists == UNION {[1..m -> Groups] : m \in 0..MaxParts}

\* partitions a caller may pass to a method of the subsystem with node set ni
ArgPartitions(ni) ==
  {Partition(parts) : parts \in PartsLists} \cup Range(GeneratePartitions(ni))

----------------------------------------------------------------------------
(* State *)

VARIABLES
  node_indices,  \* self.node_indices
  pc,            \* "constructed", or the name of the call that last returned or raised
  arg,           \* <<partition>> passed to that call, or <<>>
  other,         \* <<partition>> of the second Mip of a comparison, or <<>>
  yielded,       \* what generate_partitions yielded
  outcome,       \* "none", "returned" or the exception raised
  value,         \* <<number>> returned, or <<>>
  mip,           \* <<Mip>> returned, or <<>>
  rep,           \* <<repertoire>> returned, or <<>>
  calls,         \* the methods that ran inside the call
  entropy_tab,   \* the entropy primitive's value for each divergence the call took
  cmp,           \* <<results of the comparisons of two Mips>>, or <<>>
  parts_x,       \* arguments of a first Partition(...)
  parts_y,       \* arguments of a second Partition(...)
  built          \* <<Partition(*parts_x), Partition(*parts_y)>>, or <<>>

vars == <<node_indices, pc, arg, other, yielded, outcome, value, mip, rep,
          calls, entropy_tab, cmp, parts_x, parts_y, built>>

NoCall ==
  /\ arg = <<>> /\ other = <<>> /\ yielded = <<>> /\ outcome = "none"
  /\ value = <<>> /\ mip = <<>> /\ rep = <<>> /\ calls = {}
  /\ entropy_tab = <<>> /\ cmp = <<>>

Init ==
  /\ node_indices \in NodeSeqs
  /\ pc = "constructed"
  /\ NoCall
  /\ parts_x = <<>> /\ parts_y = <<>> /\ built = <<>>

CallGeneratePartitions ==
  /\ pc = "constructed"
  /\ pc' = "generate_partitions"
  /\ yielded' = GeneratePartitions(node_indices)
  /\ outcome' = "returned"
  /\ UNCHANGED <<node_indices, arg, other, value, mip, rep, calls,
                 entropy_tab, cmp, parts_x, parts_y, built>>

CallEffectiveInformation ==
  /\ pc = "constructed"
  /\ \E tab \in [{PriorRepertoire(node_indices)} -> EIVals] :
       \E r \in {EffectiveInformation(node_indices, tab)} :
           /\ pc' = "effective_information"
           /\ outcome' = r.outcome
           /\ value' = Opt(r)
           /\ calls' = r.calls
           /\ entropy_tab' = tab
  /\ UNCHANGED <<node_indices, arg, other, yielded, mip, rep, cmp,
                 parts_x, parts_y, built>>

CallEffectiveInformationPartition ==
  /\ pc = "constructed"
  /\ \E p \in ArgPartitions(node_indices) :
       \E tab \in [EntropyArgs(node_indices, p) -> EIVals] :
         \E r \in {EffectiveInformationPartition(node_indices, p, tab)} :
             /\ pc' = "effective_information_partition"
             /\ arg' = <<p>>
             /\ outcome' = r.outcome
             /\ value' = Opt(r)
             /\ calls' = r.calls
             /\ entropy_tab' = tab
  /\ UNCHANGED <<node_indices, other, yielded, mip, rep, cmp,
                 parts_x, parts_y, built>>

CallPartitionedPosteriorRepertoire ==
  /\ pc = "constructed"
  /\ \E p \in ArgPartitions(node_indices) :
       \E r \in {PartitionedPosteriorRepertoire(node_indices, p)} :
           /\ pc' = "partitioned_posterior_repertoire"
           /\ arg' = <<p>>
           /\ outcome' = r.outcome
           /\ rep' = Opt(r)
           /\ calls' = r.calls
  /\ UNCHANGED <<node_indices, other, yielded, value, mip, entropy_tab, cmp,
                 parts_x, parts_y, built>>

CallNormalization ==
  /\ pc = "constructed"
  /\ \E p \in ArgPartitions(node_indices) :
       \E r \in {NormalizationProperty(p)} :
           /\ pc' = "normalization"
           /\ arg' = <<p>>
           /\ outcome' = r.outcome
           /\ value' = Opt(r)
  /\ UNCHANGED <<node_indices, other, yielded, mip, rep, calls, entropy_tab,
                 cmp, parts_x, parts_y, built>>

CallFindMip ==
  /\ pc = "constructed"
  /\ \E tab \in [FindMipEntropyArgs(node_indices) -> EIVals] :
       \E r \in {FindMip(node_indices, tab)} :
           /\ pc' = "find_mip"
           /\ outcome' = r.outcome
           /\ mip' = Opt(r)
           /\ entropy_tab' = tab
  /\ UNCHANGED <<node_indices, arg, other, yielded, value, rep, calls, cmp,
                 parts_x, parts_y, built>>

CallPhi ==
  /\ pc = "constructed"
  /\ \E tab \in [FindMipEntropyArgs(node_indices) -> EIVals] :
       \E found \in {FindMip(node_indices, tab)} :
         \E r \in {Phi(found)} :
           /\ pc' = "phi"
           /\ outcome' = r.outcome
           /\ value' = Opt(r)
           /\ mip' = Opt(found)
           /\ entropy_tab' = tab
  /\ UNCHANGED <<node_indices, arg, other, yielded, rep, calls, cmp,
                 parts_x, parts_y, built>>

\* two Mips of this subsystem, built as find_mip builds them, compared with
\* every operator of the class
CompareMips ==
  /\ pc = "constructed"
  /\ \E p, q \in Range(GeneratePartitions(node_indices)) :
       \E tab \in [EntropyArgs(node_indices, p) \cup EntropyArgs(node_indices, q)
                     -> EIVals] :
         \E rp \in {EffectiveInformationPartition(node_indices, p, tab)},
            rq \in {EffectiveInformationPartition(node_indices, q, tab)} :
             /\ rp.outcome = "returned" /\ rq.outcome = "returned"
             /\ LET a == Mip(rp.value, p, node_indices)
                    b == Mip(rq.value, q, node_indices)
                IN  cmp' = << [a |-> a, b |-> b,
                               lt_ab |-> MipLt(a, b), lt_ba |-> MipLt(b, a),
                               eq_ab |-> MipEq(a, b),
                               le_ab |-> MipLe(a, b), le_ba |-> MipLe(b, a),
                               gt_ab |-> MipGt(a, b), ge_ab |-> MipGe(a, b)] >>
             /\ pc' = "compare"
             /\ arg' = <<p>>
             /\ other' = <<q>>
             /\ outcome' = "returned"
             /\ entropy_tab' = tab
  /\ UNCHANGED <<node_indices, yielded, value, mip, rep, calls,
                 parts_x, parts_y, built>>

\* the caller is done with the result; the subsystem is as it was constructed
Return ==
  /\ pc \notin {"constructed", "args", "built"}
  /\ pc' = "constructed"
  /\ arg' = <<>> /\ other' = <<>> /\ yielded' = <<>> /\ outcome' = "none"
  /\ value' = <<>> /\ mip' = <<>> /\ rep' = <<>> /\ calls' = {}
  /\ entropy_tab' = <<>> /\ cmp' = <<>>
  /\ UNCHANGED <<node_indices, parts_x, parts_y, built>>

Next ==
  \/ CallGeneratePartitions
  \/ CallEffectiveInformation
  \/ CallEffectiveInformationPartition
  \/ CallPartitionedPosteriorRepertoire
  \/ CallNormalization
  \/ CallFindMip
  \/ CallPhi
  \/ CompareMips
  \/ Return

Spec == Init /\ [][Next]_vars

----------------------------------------------------------------------------
(* Partition(...) as a pure function of its arguments *)

\* groups given to Partition(...) directly: tuples over 0..MaxGroupNode
MaxGroupNode == 1

GroupArgs ==
  {s \in UNION {[1..m -> 0..MaxGroupNode] : m \in 0..(MaxGroupNode + 1)} :
     \A i, j \in DOMAIN s : i < j => s[i] < s[j]}

PartsArgs == UNION {[1..m -> GroupArgs] : m \in 0..MaxParts}

InitPartition ==
  /\ parts_x \in PartsArgs
  /\ parts_y \in PartsArgs
  /\ built = <<>>
  /\ pc = "args"
  /\ node_indices = <<>>
  /\ NoCall

NewPartitions ==
  /\ pc = "args"
  /\ pc' = "built"
  /\ built' = <<Partition(parts_x), Partition(parts_y)>>
  /\ UNCHANGED <<node_indices, arg, other, yielded, outcome, value, mip, rep,
                 calls, entropy_tab, cmp, parts_x, parts_y>>

NextPartition == NewPartitions

SpecPartition == InitPartition /\ [][NextPartition]_vars

----------------------------------------------------------------------------
(* Properties *)

Power2(n) == 2 ^ n

\* the number of ways group g occurs among the arguments xs
Count(xs, g) == Cardinality({i \in DOMAIN xs : xs[i] = g})

\* smallest size of a group of a partition with at least one group
SmallestGroup(p) ==
  CHOOSE m \in 0..(MaxNode + 1) :
    /\ \E i \in DOMAIN p : Len(p[i]) = m
    /\ \A i \in DOMAIN p : Len(p[i]) >= m

\* the key (ei / normalization, ei) of partition q is below that of partition p,
\* with eq and ep their effective information
KeyBelow(eq, q, ep, p) ==
  \/ eq * Normalization(p) < ep * Normalization(q)
  \/ /\ eq * Normalization(p) = ep * Normalization(q)
     /\ eq < ep

\* the effective information of generated partition q under the table of
\* the state
Scored(q) == EffectiveInformationPartition(node_indices, q, entropy_tab).value

\* C1: for a node set of n >= 1 distinct identifiers generate_partitions
\* yields exactly 2^(n-1) partitions: exactly one total partition, whose one
\* group is the node set, and otherwise partitions of exactly two non-empty
\* disjoint groups; no two partitions yielded have the same groups.
C1_GenerateCount ==
  (pc = "generate_partitions" /\ Len(node_indices) >= 1) =>
    /\ Len(yielded) = Power2(Len(node_indices) - 1)
    /\ Cardinality({k \in DOMAIN yielded : Len(yielded[k]) = 1}) = 1
    /\ \A k \in DOMAIN yielded :
         \/ yielded[k] = <<node_indices>>
         \/ /\ Len(yielded[k]) = 2
            /\ yielded[k][1] # <<>> /\ yielded[k][2] # <<>>
            /\ Range(yielded[k][1]) \cap Range(yielded[k][2]) = {}
    /\ \A j, k \in DOMAIN yielded :
         j # k => Range(yielded[j]) # Range(yielded[k])

C1_Witness ==
  /\ pc = "generate_partitions"
  /\ Len(node_indices) = 3
  /\ Len(yielded) = 4
  /\ \E k \in DOMAIN yielded : Len(yielded[k]) = 2

\* C2: the Mip find_mip returns has one of the generated partitions, its ei is
\* the effective information across that partition, and no generated
\* partition has a smaller key (ei / normalization, ei); phi returns the ei of
\* that Mip.
C2_FindMipMinimal ==
  (pc \in {"find_mip", "phi"} /\ outcome = "returned") =>
    /\ Len(mip) = 1
    /\ Head(mip).partition \in Range(GeneratePartitions(node_indices))
    /\ Head(mip).ei = Scored(Head(mip).partition)
    /\ \A q \in Range(GeneratePartitions(node_indices)) :
         ~KeyBelow(Scored(q), q, Head(mip).ei, Head(mip).partition)
    /\ pc = "phi" => value = <<Head(mip).ei>>

\* the tie-break decides: another partition has the same normalized value and
\* a larger raw one
C2_Witness ==
  /\ pc = "find_mip" /\ outcome = "returned"
  /\ \E q \in Range(GeneratePartitions(node_indices)) :
       /\ Scored(q) * Normalization(Head(mip).partition)
            = Head(mip).ei * Normalization(q)
       /\ Scored(q) > Head(mip).ei

\* C3: for every partition generate_partitions yields, indices equals the
\* node set it was given, so the assertion of effective_information_partition
\* holds for every partition find_mip scores.
C3_IndicesRoundTrip ==
  /\ pc = "generate_partitions" =>
       \A k \in DOMAIN yielded : Indices(yielded[k]) = node_indices
  /\ pc \in {"find_mip", "phi"} => outcome # "AssertionError"

\* C4: normalization is the number of nodes for a total partition and
\* (k - 1) * (size of the smallest group) for a partition of k >= 2 groups;
\* for every partition generated from a non-empty node set it is >= 1, and n
\* for the total one.
C4_Normalization ==
  (pc = "normalization" /\ outcome = "returned") =>
    LET p == Head(arg)
        v == Head(value)
    IN  /\ Len(p) = 1 => v = Len(p[1])
        /\ Len(p) >= 2 => v = (Len(p) - 1) * SmallestGroup(p)
        /\ (Len(node_indices) >= 1
            /\ p \in Range(GeneratePartitions(node_indices))) =>
             /\ v >= 1
             /\ Len(p) = 1 => v = Len(node_indices)

C4_Witness ==
  /\ pc = "normalization" /\ outcome = "returned"
  /\ Len(node_indices) = 3
  /\ Head(arg) \in Range(GeneratePartitions(node_indices))
  /\ Len(Head(arg)) = 2
  /\ value = <<1>>

\* C5: for the total partition effective_information_partition returns
\* effective_information() of the whole system, the divergence of the
\* posterior from the prior, without computing a partitioned posterior; for
\* any other partition it returns the divergence of the posterior from the
\* partitioned posterior of that partition.
C5_TotalSpecialCase ==
  (pc = "effective_information_partition" /\ outcome = "returned") =>
    IF Len(Head(arg)) = 1
      THEN /\ value = <<entropy_tab[PriorRepertoire(node_indices)]>>
           /\ value = Opt(EffectiveInformation(node_indices, entropy_tab))
           /\ "partitioned_posterior_repertoire" \notin calls
      ELSE /\ value = <<entropy_tab[[kind |-> "posterior",
                                      factors |-> Head(arg)]]>>
           /\ "partitioned_posterior_repertoire" \in calls

C5_Witness ==
  /\ pc = "effective_information_partition" /\ outcome = "returned"
  /\ Head(arg) = <<node_indices>>
  /\ Len(node_indices) = 3
  /\ value = <<MaxEI>>

\* C6: effective_information_partition called with a partition whose indices
\* differ from node_indices raises AssertionError before any repertoire is
\* computed, returns no value and leaves the subsystem as it was.
C6_AssertFirst ==
  [][(pc' = "effective_information_partition"
      /\ Indices(Head(arg')) # node_indices) =>
       /\ outcome' = "AssertionError"
       /\ value' = <<>>
       /\ calls' = {}
       /\ node_indices' = node_indices]_vars

C6_Witness ==
  /\ pc = "effective_information_partition"
  /\ Len(node_indices) = 3
  /\ Len(Head(arg)) = 2
  /\ Indices(Head(arg)) # node_indices
  /\ outcome = "AssertionError"

\* C7 as stated (here for partitions whose groups are non-empty and made of
\* the subsystem's own nodes, which the collaborator surely answers):
\* partitioned_posterior_repertoire called with a partition whose indices
\* differ from the node set fails (with an assertion or other contract error)
\* instead of returning a repertoire.
C7_AssertsIndices ==
  (pc = "partitioned_posterior_repertoire"
   /\ \A i \in DOMAIN Head(arg) :
        Head(arg)[i] # <<>> /\ Range(Head(arg)[i]) \subseteq Range(node_indices)
   /\ Indices(Head(arg)) # node_indices) =>
    /\ outcome # "returned"
    /\ rep = <<>>

\* C7 as amended: partitioned_posterior_repertoire does not check the
\* partition's indices: for a partition of at least one group it returns the
\* product of the posterior repertoires of its groups, whether or not its
\* indices are the node set.
C7_NoIndexCheck ==
  (pc = "partitioned_posterior_repertoire" /\ Len(Head(arg)) >= 1) =>
    /\ outcome = "returned"
    /\ rep = <<[kind |-> "posterior", factors |-> Head(arg)]>>

C7_Witness ==
  /\ pc = "partitioned_posterior_repertoire"
  /\ Len(node_indices) = 3
  /\ Len(Head(arg)) = 2
  /\ \A i \in DOMAIN Head(arg) :
       Head(arg)[i] # <<>> /\ Range(Head(arg)[i]) \subseteq Range(node_indices)
  /\ Indices(Head(arg)) # node_indices
  /\ outcome = "returned"
  /\ rep # <<>>

\* C8: a Partition keeps its groups sorted, so two Partitions built from the
\* same groups in any argument order are equal and have the same hash, and
\* two Partitions built from different sets of groups are unequal.
C8_CanonicalOrder ==
  pc = "built" =>
    LET x == built[1]
        y == built[2]
    IN  /\ \A i, j \in DOMAIN x : i < j => ~TupleLess(x[j], x[i])
        /\ (\A g \in Range(parts_x) \cup Range(parts_y) :
              Count(parts_x, g) = Count(parts_y, g)) =>
             /\ PartitionEq(x, y)
             /\ PartitionHash(x) = PartitionHash(y)
        /\ Range(parts_x) # Range(parts_y) => ~PartitionEq(x, y)

C8_Witness ==
  /\ pc = "built"
  /\ Len(parts_x) = 2
  /\ parts_x[1] # parts_x[2]
  /\ parts_y = <<parts_x[2], parts_x[1]>>
  /\ built[1] = built[2]
  /\ PartitionHash(built[1]) = PartitionHash(built[2])

\* C9: for two Mips a and b of one subsystem exactly one of a < b, a == b,
\* b < a holds, and so a <= b or b <= a.
C9_Trichotomy ==
  pc = "compare" =>
    LET c == Head(cmp)
    IN  /\ \/ c.lt_ab /\ ~c.eq_ab /\ ~c.lt_ba
           \/ ~c.lt_ab /\ c.eq_ab /\ ~c.lt_ba
           \/ ~c.lt_ab /\ ~c.eq_ab /\ c.lt_ba
        /\ c.le_ab \/ c.le_ba

\* C10: when every effective information is non-negative, phi() is at most
\* effective_information() of the whole system, and equal to it for a system
\* of one node.
C10_PhiAtMostEI ==
  (/\ pc = "phi" /\ outcome = "returned"
   /\ \A q \in DOMAIN entropy_tab : entropy_tab[q] >= 0) =>
    /\ Head(value) <= EffectiveInformation(node_indices, entropy_tab).value
    /\ Len(node_indices) = 1 =>
         Head(value) = EffectiveInformation(node_indices, entropy_tab).value

\* the MIP is a bipartition with less effective information than the whole
C10_Witness ==
  /\ pc = "phi" /\ outcome = "returned"
  /\ Len(node_indices) = 3
  /\ Len(Head(mip).partition) = 2
  /\ Head(value) < entropy_tab[PriorRepertoire(node_indices)]

====
